---- MODULE Spec2Model ----
\* Model of invenio_pidstore/providers/crossref.py: CrossrefProvider, the
\* adapter between a local PersistentIdentifier record and the Crossref
\* client.  Each provider method is one action; the remote client's answer to
\* every call it makes is an input of the action.
EXTENDS Integers, Sequences, FiniteSets, TLC

\* ---------------------------------------------------------------- bounds
NumPids == 2
NumUrls == 2
NumDocs == 2

AllPids == <<"10.5555/a", "10.5555/b", "10.5555/c", "10.5555/d">>
AllUrls == <<"https://a", "https://b", "https://c", "https://d">>
AllDocs == <<"doc-a", "doc-b", "doc-c", "doc-d">>

PidValues == {AllPids[i] : i \in 1..NumPids}
Urls == {AllUrls[i] : i \in 1..NumUrls}
Docs == {AllDocs[i] : i \in 1..NumDocs}

\* ---------------------------------------------------------------- types
\* PIDStatus members the provider uses.
PIDStatus == {"NEW", "RESERVED", "REGISTERED", "DELETED"}

\* `status = None` inside sync_status.
None == "None"

\* default_status = PIDStatus.NEW
default_status == "NEW"

\* What one call of the remote client can do: return, or raise one of the
\* exception classes the module imports from commonmeta.
GoneError == "CrossrefGoneError"
NoContentError == "CrossrefNoContentError"
NotFoundError == "CrossrefNotFoundError"
Distinguished == {GoneError, NoContentError, NotFoundError}
Generic == {"CrossrefError", "HttpError"}
Outcomes == {"ok"} \cup Distinguished \cup Generic

\* One entry of an invocation's trace: a call on the record (pid.*) or on the
\* remote client, its arguments, how it ended, and the record's status when
\* the call was made.
Ev(name, arg, out, st) == [name |-> name, arg |-> arg, out |-> out, st |-> st]

RemoteNames == {"metadata_post", "doi_post", "doi_get", "metadata_get", "metadata_delete"}

\* The outcome of a provider method: the record's status afterwards, the trace
\* of calls, and the return value ("True") or the exception raised.
Outcome(st, evs, res) == [status |-> st, events |-> evs, result |-> res]

\* ------------------------------------------------- the identifier record
\* PersistentIdentifier.register(): mark the identifier registered locally.
pid_register(st) == "REGISTERED"

\* PersistentIdentifier.delete(): local deletion.
pid_delete(st) == "DELETED"

\* PersistentIdentifier.sync_status(status): write the given status.
pid_sync_status(st, new) == new

is_new(st) == st = "NEW"

is_deleted(st) == st = "DELETED"

\* ------------------------------------------------------------ the provider
\* register with the local transition moved after the remote calls.
register_LocalLast(st, pid, url, doc, o1, o2) ==
    LET st1 == pid_register(st)
        e0 == Ev("pid.register", <<>>, "ok", st)
        e1 == Ev("metadata_post", <<doc>>, o1, st)
        e2 == Ev("doi_post", <<pid, url>>, o2, st)
    IN  IF o1 # "ok" THEN Outcome(st, <<e1>>, o1)
        ELSE IF o2 # "ok" THEN Outcome(st, <<e1, e2>>, o2)
        ELSE Outcome(st1, <<e1, e2, e0>>, "True")

\* register that goes on to mint after a failed metadata_post.
register_MintAnyway(st, pid, url, doc, o1, o2) ==
    LET st1 == pid_register(st)
        e0 == Ev("pid.register", <<>>, "ok", st)
        e1 == Ev("metadata_post", <<doc>>, o1, st1)
        e2 == Ev("doi_post", <<pid, url>>, o2, st1)
    IN  IF o2 # "ok" THEN Outcome(st1, <<e0, e1, e2>>, o2)
        ELSE IF o1 # "ok" THEN Outcome(st1, <<e0, e1, e2>>, o1)
        ELSE Outcome(st1, <<e0, e1, e2>>, "True")

\* register(url, doc); o1, o2 are the client's answers to metadata_post and
\* doi_post.
register(st, pid, url, doc, o1, o2) ==
    LET st1 == pid_register(st)
        e0 == Ev("pid.register", <<>>, "ok", st)
        e1 == Ev("metadata_post", <<doc>>, o1, st1)
        e2 == Ev("doi_post", <<pid, url>>, o2, st1)
    IN  IF o1 # "ok" THEN Outcome(st1, <<e0, e1>>, o1)
        ELSE IF o2 # "ok" THEN Outcome(st1, <<e0, e1, e2>>, o2)
        ELSE Outcome(st1, <<e0, e1, e2>>, "True")

\* update that reactivates the record before the remote calls.
update_Eager(st, pid, url, doc, o1, o2) ==
    LET st1 == IF is_deleted(st) THEN pid_sync_status(st, "REGISTERED") ELSE st
        es == IF is_deleted(st)
              THEN <<Ev("pid.sync_status", <<"REGISTERED">>, "ok", st)>>
              ELSE <<>>
        e1 == Ev("metadata_post", <<doc>>, o1, st1)
        e2 == Ev("doi_post", <<pid, url>>, o2, st1)
    IN  IF o1 # "ok" THEN Outcome(st1, es \o <<e1>>, o1)
        ELSE IF o2 # "ok" THEN Outcome(st1, es \o <<e1, e2>>, o2)
        ELSE Outcome(st1, es \o <<e1, e2>>, "True")

\* update that reactivates to RESERVED instead of REGISTERED.
update_SyncReserved(st, pid, url, doc, o1, o2) ==
    LET e1 == Ev("metadata_post", <<doc>>, o1, st)
        e2 == Ev("doi_post", <<pid, url>>, o2, st)
        es == Ev("pid.sync_status", <<"RESERVED">>, "ok", st)
    IN  IF o1 # "ok" THEN Outcome(st, <<e1>>, o1)
        ELSE IF o2 # "ok" THEN Outcome(st, <<e1, e2>>, o2)
        ELSE IF is_deleted(st)
             THEN Outcome(pid_sync_status(st, "RESERVED"), <<e1, e2, es>>, "True")
             ELSE Outcome(st, <<e1, e2>>, "True")

\* update that reactivates as soon as metadata_post has succeeded.
update_AfterFirst(st, pid, url, doc, o1, o2) ==
    LET e1 == Ev("metadata_post", <<doc>>, o1, st)
        e2 == Ev("doi_post", <<pid, url>>, o2, st)
        es == Ev("pid.sync_status", <<"REGISTERED">>, "ok", st)
        st1 == IF is_deleted(st) THEN pid_sync_status(st, "REGISTERED") ELSE st
        ev1 == IF is_deleted(st) THEN <<e1, es>> ELSE <<e1>>
    IN  IF o1 # "ok" THEN Outcome(st, <<e1>>, o1)
        ELSE IF o2 # "ok" THEN Outcome(st1, ev1 \o <<e2>>, o2)
        ELSE Outcome(st1, ev1 \o <<e2>>, "True")

\* update(url, doc)
update(st, pid, url, doc, o1, o2) ==
    LET e1 == Ev("metadata_post", <<doc>>, o1, st)
        e2 == Ev("doi_post", <<pid, url>>, o2, st)
        es == Ev("pid.sync_status", <<"REGISTERED">>, "ok", st)
    IN  IF o1 # "ok" THEN Outcome(st, <<e1>>, o1)
        ELSE IF o2 # "ok" THEN Outcome(st, <<e1, e2>>, o2)
        ELSE IF is_deleted(st)
             THEN Outcome(pid_sync_status(st, "REGISTERED"), <<e1, e2, es>>, "True")
             ELSE Outcome(st, <<e1, e2>>, "True")

\* delete without the is_new() branch.
delete_AlwaysRemote(st, pid, o) ==
    LET st1 == pid_delete(st)
        e0 == Ev("pid.delete", <<>>, "ok", st)
        e1 == Ev("metadata_delete", <<pid>>, o, st1)
    IN  IF o # "ok" THEN Outcome(st1, <<e0, e1>>, o)
        ELSE Outcome(st1, <<e0, e1>>, "True")

\* delete that deletes remotely first and locally only on success.
delete_RemoteFirst(st, pid, o) ==
    LET st1 == pid_delete(st)
        e0 == Ev("pid.delete", <<>>, "ok", st)
        e1 == Ev("metadata_delete", <<pid>>, o, st)
    IN  IF is_new(st) THEN Outcome(st1, <<e0>>, "True")
        ELSE IF o # "ok" THEN Outcome(st, <<e1>>, o)
        ELSE Outcome(st1, <<e1, e0>>, "True")

\* delete(); o is the client's answer to metadata_delete.
delete(st, pid, o) ==
    LET st1 == pid_delete(st)
        e0 == Ev("pid.delete", <<>>, "ok", st)
        e1 == Ev("metadata_delete", <<pid>>, o, st1)
    IN  IF is_new(st) THEN Outcome(st1, <<e0>>, "True")
        ELSE IF o # "ok" THEN Outcome(st1, <<e0, e1>>, o)
        ELSE Outcome(st1, <<e0, e1>>, "True")

\* doi_get's "no content" treated like "not found".
doi_probe_NoContentPass(o) ==
    CASE o = "ok" -> "REGISTERED"
      [] o = GoneError -> "DELETED"
      [] o = NoContentError -> None
      [] o = NotFoundError -> None

\* The inner try of sync_status around doi_get.
doi_probe(o) ==
    CASE o = "ok" -> "REGISTERED"
      [] o = GoneError -> "DELETED"
      [] o = NoContentError -> "REGISTERED"
      [] o = NotFoundError -> None

\* metadata_get's branches copied from doi_get's: success gives REGISTERED.
metadata_probe_AsDoi(o) ==
    CASE o = "ok" -> "REGISTERED"
      [] o = GoneError -> "DELETED"
      [] o = NoContentError -> "REGISTERED"
      [] o = NotFoundError -> None

\* The inner try of sync_status around metadata_get.
metadata_probe(o) ==
    CASE o = "ok" -> "RESERVED"
      [] o = GoneError -> "DELETED"
      [] o = NoContentError -> "REGISTERED"
      [] o = NotFoundError -> None

\* sync_status whose inner handlers also catch the generic errors.
sync_status_Swallow(st, pid, o1, o2) ==
    LET e1 == Ev("doi_get", <<pid>>, o1, st)
        e2 == Ev("metadata_get", <<pid>>, o2, st)
        s1 == IF o1 \in Generic THEN None ELSE doi_probe(o1)
        s2 == IF o2 \in Generic THEN None ELSE metadata_probe(o2)
        done(s, evs) ==
            LET final == IF s = None THEN "NEW" ELSE s
            IN  Outcome(pid_sync_status(st, final),
                        evs \o <<Ev("pid.sync_status", <<final>>, "ok", st)>>,
                        "True")
    IN  IF s1 # None THEN done(s1, <<e1>>) ELSE done(s2, <<e1, e2>>)

\* sync_status(); o1, o2 are the client's answers to doi_get and metadata_get.
sync_status(st, pid, o1, o2) ==
    LET e1 == Ev("doi_get", <<pid>>, o1, st)
        e2 == Ev("metadata_get", <<pid>>, o2, st)
        done(s, evs) ==
            LET final == IF s = None THEN "NEW" ELSE s
            IN  Outcome(pid_sync_status(st, final),
                        evs \o <<Ev("pid.sync_status", <<final>>, "ok", st)>>,
                        "True")
    IN  IF o1 \in Generic THEN Outcome(st, <<e1>>, o1)
        ELSE IF doi_probe(o1) # None THEN done(doi_probe(o1), <<e1>>)
        ELSE IF o2 \in Generic THEN Outcome(st, <<e1, e2>>, o2)
        ELSE done(metadata_probe(o2), <<e1, e2>>)

\* ------------------------------------------------------------------ state
VARIABLES
    pid_value,  \* self.pid.pid_value
    status,     \* self.pid.status
    op,         \* the provider method invoked last
    inp,        \* its arguments <<url, doc>>
    pre,        \* self.pid.status when it was invoked
    events,     \* the calls it made, in order
    result      \* "True", or the exception it raised

vars == <<pid_value, status, op, inp, pre, events, result>>

NoInput == <<>>

\* CrossrefProvider.create(pid_value): a record with the default status.
Init ==
    /\ pid_value \in PidValues
    /\ status = default_status
    /\ op = "none"
    /\ inp = NoInput
    /\ pre = default_status
    /\ events = <<>>
    /\ result = "none"

Apply(name, args, out) ==
    /\ op' = name
    /\ inp' = args
    /\ pre' = status
    /\ status' = out.status
    /\ events' = out.events
    /\ result' = out.result
    /\ UNCHANGED pid_value

Register ==
    \E url \in Urls, doc \in Docs, o1 \in Outcomes, o2 \in Outcomes :
        Apply("register", <<url, doc>>, register(status, pid_value, url, doc, o1, o2))

Update ==
    \E url \in Urls, doc \in Docs, o1 \in Outcomes, o2 \in Outcomes :
        Apply("update", <<url, doc>>, update(status, pid_value, url, doc, o1, o2))

Delete ==
    \E o \in Outcomes :
        Apply("delete", NoInput, delete(status, pid_value, o))

SyncStatus ==
    \E o1 \in Outcomes, o2 \in Outcomes :
        Apply("sync_status", NoInput, sync_status(status, pid_value, o1, o2))

Next == Register \/ Update \/ Delete \/ SyncStatus

Spec == Init /\ [][Next]_vars

\* ---------------------------------------------------------------- claims
IsRemote(e) == e.name \in RemoteNames

\* The remote-client calls of the last invocation, in order.
Remote == SelectSeq(events, IsRemote)

Raised == result \notin {"none", "True"}

\* C1 (as stated): the local status never changes unless the operation's
\* remote calls were confirmed first; an operation that raised has not changed
\* the status, and no remote call is made after the status has changed.
C1_StatusOnlyAfterRemoteSuccess ==
    /\ Raised => status = pre
    /\ status # pre =>
          \A i \in 1..Len(events) : IsRemote(events[i]) => events[i].st = pre

\* C1 (amended): update and sync_status change the local status only after
\* their remote calls, and not at all when they raise; register and delete make
\* the local transition first, so every remote call of theirs sees the status
\* already transitioned, also when that call then fails.
C1_Amended ==
    /\ op \in {"update", "sync_status"} =>
          /\ Raised => status = pre
          /\ \A i \in 1..Len(events) : IsRemote(events[i]) => events[i].st = pre
          /\ (op = "update" /\ status # pre) =>
                \A i \in 1..Len(Remote) : Remote[i].out = "ok"
    /\ op \in {"register", "delete"} =>
          /\ events[1].name \in {"pid.register", "pid.delete"}
          /\ \A i \in 1..Len(events) : IsRemote(events[i]) => events[i].st = status

C1_Witness ==
    /\ op = "update"
    /\ pre = "DELETED"
    /\ Raised
    /\ Len(Remote) = 2
    /\ status = "DELETED"

\* The transitions of the status model: forward along
\* NEW -> RESERVED -> REGISTERED -> DELETED, or DELETED -> REGISTERED.
Rank(s) ==
    CASE s = "NEW" -> 0
      [] s = "RESERVED" -> 1
      [] s = "REGISTERED" -> 2
      [] s = "DELETED" -> 3

ValidTransition(a, b) == Rank(a) < Rank(b) \/ (a = "DELETED" /\ b = "REGISTERED")

\* C2 (as stated): every change of the local status, by any of the four
\* operations, is a valid transition of the status model.
C2_EveryChangeValid == status # pre => ValidTransition(pre, status)

\* C2 (amended): every change of the local status made by register, update or
\* delete is a valid transition; sync_status writes the inferred status
\* whatever the prior one was.
C2_Amended ==
    (op \in {"register", "update", "delete"} /\ status # pre) =>
        ValidTransition(pre, status)

C2_Witness ==
    /\ op = "update"
    /\ pre = "DELETED"
    /\ status = "REGISTERED"

\* C3: register issues metadata_post before doi_post, and never issues
\* doi_post when metadata_post failed.
C3_RegisterOrder ==
    op = "register" =>
        /\ Len(Remote) \in {1, 2}
        /\ Remote[1].name = "metadata_post"
        /\ Remote[1].arg = <<inp[2]>>
        /\ Len(Remote) = 2 =>
              /\ Remote[1].out = "ok"
              /\ Remote[2].name = "doi_post"
              /\ Remote[2].arg = <<pid_value, inp[1]>>
        /\ Remote[1].out # "ok" => \A i \in 1..Len(Remote) : Remote[i].name # "doi_post"

C3_Witness ==
    /\ op = "register"
    /\ Len(Remote) = 1
    /\ Remote[1].name = "metadata_post"
    /\ Remote[1].out \in Generic

\* C4: update on a DELETED record leaves it REGISTERED iff both remote calls
\* succeed, and DELETED with the error raised otherwise; on any other record it
\* makes the same two calls and leaves the status alone.
C4_UpdateReactivation ==
    op = "update" =>
        LET bothOk == Len(Remote) = 2 /\ Remote[1].out = "ok" /\ Remote[2].out = "ok"
        IN  /\ Remote[1].name = "metadata_post" /\ Remote[1].arg = <<inp[2]>>
            /\ Remote[1].out = "ok" =>
                  /\ Len(Remote) = 2
                  /\ Remote[2].name = "doi_post"
                  /\ Remote[2].arg = <<pid_value, inp[1]>>
            /\ pre = "DELETED" =>
                  /\ status = "REGISTERED" <=> bothOk
                  /\ ~bothOk => /\ status = "DELETED"
                                /\ result = Remote[Len(Remote)].out
                                /\ result # "ok"
            /\ pre # "DELETED" => status = pre
            /\ result = "True" <=> bothOk

C4_Witness ==
    /\ op = "update"
    /\ pre = "DELETED"
    /\ Len(Remote) = 2
    /\ Remote[1].out = "ok"
    /\ Remote[2].out = "HttpError"
    /\ status = "DELETED"

\* C5: sync_status issues doi_get first and issues metadata_get only when
\* doi_get raised "not found".
C5_ProbePrecedence ==
    op = "sync_status" =>
        /\ Len(Remote) \in {1, 2}
        /\ Remote[1].name = "doi_get"
        /\ Remote[1].arg = <<pid_value>>
        /\ Len(Remote) = 2 =>
              /\ Remote[1].out = NotFoundError
              /\ Remote[2].name = "metadata_get"
        /\ Remote[1].out \in {"ok", GoneError, NoContentError} => Len(Remote) = 1

C5_Witness ==
    /\ op = "sync_status"
    /\ Remote[1].out = NoContentError
    /\ Len(Remote) = 1
    /\ result = "True"

\* The reference table of C6: identifier probe, metadata probe -> status.
SyncTable ==
    [d \in {"ok", GoneError, NoContentError, NotFoundError},
     m \in {"ok", GoneError, NoContentError, NotFoundError, "unused"} |->
        IF d = "ok" THEN "REGISTERED"
        ELSE IF d = GoneError THEN "DELETED"
        ELSE IF d = NoContentError THEN "REGISTERED"
        ELSE IF m = "ok" THEN "RESERVED"
        ELSE IF m = GoneError THEN "DELETED"
        ELSE IF m = NoContentError THEN "REGISTERED"
        ELSE "NEW"]

\* C6: the status sync_status passes to the record's mutator is the table's
\* entry for the probe outcomes; it is NEW iff both probes gave "not found".
C6_SyncTable ==
    (op = "sync_status" /\ result = "True") =>
        LET last == events[Len(events)]
            m == IF Len(Remote) = 2 THEN Remote[2].out ELSE "unused"
        IN  /\ last.name = "pid.sync_status"
            /\ last.arg = <<SyncTable[Remote[1].out, m]>>
            /\ last.arg = <<"NEW">> <=>
                  /\ Len(Remote) = 2
                  /\ Remote[1].out = NotFoundError
                  /\ Remote[2].out = NotFoundError

C6_Witness ==
    /\ op = "sync_status"
    /\ result = "True"
    /\ Len(Remote) = 2
    /\ Remote[2].out = "ok"
    /\ events[Len(events)].arg = <<"RESERVED">>
    /\ pre = "REGISTERED"

\* C7: a generic remote error in either probe of sync_status is re-raised, no
\* further probe is issued, the record's mutator is not called and the local
\* status is what it was.
C7_SyncAbort ==
    \A i \in 1..Len(events) :
        (op = "sync_status" /\ IsRemote(events[i]) /\ events[i].out \in Generic) =>
            /\ result = events[i].out
            /\ i = Len(events)
            /\ \A j \in 1..Len(events) : events[j].name # "pid.sync_status"
            /\ status = pre

C7_Witness ==
    /\ op = "sync_status"
    /\ Len(events) = 2
    /\ events[2].name = "metadata_get"
    /\ events[2].out = "CrossrefError"
    /\ pre = "REGISTERED"

\* C8: delete on a NEW record makes no remote call; it only deletes locally.
C8_DeleteNewLocalOnly ==
    (op = "delete" /\ pre = "NEW") =>
        /\ Remote = <<>>
        /\ events = <<Ev("pid.delete", <<>>, "ok", "NEW")>>
        /\ result = "True"

C8_Witness ==
    /\ op = "delete"
    /\ pre = "NEW"
    /\ status = "DELETED"

\* C9: delete on a record that is not NEW makes exactly one remote call,
\* metadata_delete of the identifier's value, after the local deletion.
C9_DeleteRemoteOnce ==
    (op = "delete" /\ pre # "NEW") =>
        /\ Len(Remote) = 1
        /\ Remote[1].name = "metadata_delete"
        /\ Remote[1].arg = <<pid_value>>
        /\ Len(events) = 2
        /\ events[1].name = "pid.delete"
        /\ events[2] = Remote[1]

C9_Witness ==
    /\ op = "delete"
    /\ pre = "DELETED"
    /\ Len(Remote) = 1
    /\ Remote[1].out = "ok"

\* C10: when metadata_post or doi_post fails in register, the error is raised,
\* nothing is called after it, and the local status is already REGISTERED
\* because the local transition came before the first remote call.
C10_RegisterFailure ==
    (op = "register" /\ Len(Remote) > 0 /\ Remote[Len(Remote)].out # "ok") =>
        /\ result = Remote[Len(Remote)].out
        /\ events[Len(events)] = Remote[Len(Remote)]
        /\ \A i \in 1..(Len(Remote) - 1) : Remote[i].out = "ok"
        /\ events[1].name = "pid.register"
        /\ \A i \in 1..Len(Remote) : Remote[i].st = "REGISTERED"
        /\ status = "REGISTERED"

C10_Witness ==
    /\ op = "register"
    /\ pre = "NEW"
    /\ Len(Remote) = 2
    /\ Remote[2].out = "CrossrefError"
    /\ result = "CrossrefError"
    /\ status = "REGISTERED"

====
